---- MODULE Spec2Model ----
(***************************************************************************)
(* Model of src/ollama_model_manager.py: the manifest scanner              *)
(* (list_models), the reference index (find_all_references), the deletion  *)
(* engine (delete_model, refresh_model_list) and the batch handler         *)
(* (on_delete, on_check), over a small manifests tree and blob store.      *)
(***************************************************************************)
EXTENDS Integers, Sequences, FiniteSets, TLC

(* ---------------- bounds ---------------- *)
\* how many paths of PathUniverse may hold a manifest file
NumPaths == 2

(* ---------------- the filesystem universe ---------------- *)
\* relative paths under MANIFESTS_DIR, as os.sep-separated parts
PathUniverse ==
  << <<"a.json">>, <<"lib", "m", "v1">>, <<"b">>, <<"C.JSON">>, <<"lib", "n.json">> >>

Paths == {PathUniverse[i] : i \in 1..NumPaths}

Range(s) == {s[i] : i \in DOMAIN s}

\* the relative paths of the trees that are only scanned: with a file and a
\* directory of one name, and with ":" in the names
ScanUniverse ==
  << <<"a.json">>, <<"x">>, <<"lib", "m", "v1">>, <<"x", "latest">>,
     <<"p:q", "r">>, <<"p", "q:r">> >>

ScanPaths == Range(ScanUniverse)

\* every path of the two universes in the order in which os.walk yields them:
\* the files of a directory before the files of its subdirectories
WalkOrder ==
  << <<"a.json">>, <<"b">>, <<"C.JSON">>, <<"x">>, <<"lib", "n.json">>,
     <<"lib", "m", "v1">>, <<"x", "latest">>, <<"p:q", "r">>, <<"p", "q:r">> >>

\* the sha256 values of the test fixture's manifests
HashUniverse == <<"aaaa", "bbbb", "cccc">>

Hashes == Range(HashUniverse)

HashIndex(h) == CHOOSE i \in DOMAIN HashUniverse : HashUniverse[i] = h

\* the file of MANIFESTS_DIR at a path: absent; not loadable as JSON (or
\* unreadable); a well-formed manifest whose "blobs" list holds these sha256
\* values; or a document that json.load accepts and whose "blobs" list starts
\* with these values, but on which list_models raises (a "config" or "layers"
\* of the wrong type, or a "blobs" entry after these that is no object)
NoFile == [kind |-> "none", blobs |-> <<>>]

BadFile == [kind |-> "bad", blobs |-> <<>>]

JsonFile(bs) == [kind |-> "json", blobs |-> bs]

OddFile(bs) == [kind |-> "odd", blobs |-> bs]

\* json.load(f) returns
Loads(file) == file.kind \in {"json", "odd"}

\* the "blobs" lists of the initial states: as in the test fixture, no digest,
\* one, or two different ones
InitLists ==
  {<<>>} \cup {<<h>> : h \in Hashes}
         \cup {<<p[1], p[2]>> : p \in {q \in Hashes \X Hashes : HashIndex(q[1]) < HashIndex(q[2])}}

InitFiles ==
  {NoFile, BadFile} \cup {JsonFile(s) : s \in InitLists} \cup {OddFile(<<h>>) : h \in Hashes}

EmptyMap == [x \in {} |-> 0]

Put(f, k, v) == [x \in DOMAIN f \cup {k} |-> IF x = k THEN v ELSE f[x]]

(* ---------------- list_models ---------------- *)
\* "/".join(parts)
RECURSIVE JoinSlash(_)
JoinSlash(parts) ==
  IF Len(parts) = 0 THEN ""
  ELSE IF Len(parts) = 1 THEN parts[1]
  ELSE parts[1] \o "/" \o JoinSlash(Tail(parts))

Prefix(parts) ==
  IF Len(parts) > 1 THEN JoinSlash(SubSeq(parts, 1, Len(parts) - 1))
  ELSE IF Len(parts) > 0 THEN parts[1] ELSE "unknown"

Tag(parts) == IF Len(parts) > 1 THEN parts[Len(parts)] ELSE "latest"

ModelName(parts) == Prefix(parts) \o ":" \o Tag(parts)

\* the blob file name of a digest
BlobName(h) == "sha256-" \o h

\* blob_hashes of a loaded manifest: falsy sha256 values are skipped
BlobHashes(file) == {BlobName(h) : h \in {g \in Range(file.blobs) : g # ""}}

\* a tree is a function from relative paths to files; the tree of a root that
\* does not exist has no paths
NoDir == [p \in {} |-> NoFile]

\* os.path.isdir(MANIFESTS_DIR)
IsDir(d) == DOMAIN d # {}

ExistingFiles(d) == {p \in DOMAIN d : d[p].kind # "none"}

\* os.walk(MANIFESTS_DIR): top-down, a directory's files before its subdirectories
Walk(d) ==
  LET Exists(p) == p \in ExistingFiles(d)
  IN SelectSeq(WalkOrder, Exists)

ModelRecord(p, file) ==
  [file_path |-> p, blob_hashes |-> BlobHashes(file),
   prefix |-> Prefix(p), tag |-> Tag(p)]

\* the except clauses of lines 79-82: a message is printed and the loop goes
\* on with the records it has
SkipFile(models) == models

\* lines 28-82: the loop over the files of the walk
RECURSIVE ScanFiles(_, _, _)
ScanFiles(d, files, models) ==
  IF files = <<>> THEN models
  ELSE LET p == Head(files)
       IN ScanFiles(d, Tail(files),
                    IF d[p].kind = "json"
                    THEN Put(models, ModelName(p), ModelRecord(p, d[p]))
                    ELSE SkipFile(models))

ScanManifests(d) == ScanFiles(d, Walk(d), EmptyMap)

\* len(name.split(":")) - 1
RECURSIVE CountColons(_)
CountColons(name) ==
  IF Len(name) = 0 THEN 0
  ELSE (IF SubSeq(name, 1, 1) = ":" THEN 1 ELSE 0) + CountColons(SubSeq(name, 2, Len(name)))

\* the count for every name a scan can derive
ColonsOf == [name \in {ModelName(p) : p \in Range(WalkOrder)} |-> CountColons(name)]

\* lines 88-89: `prefix, tag = name.split(":")` raises ValueError for a name
\* that does not split into two parts
TableRaises(models) == \E name \in DOMAIN models : ColonsOf[name] # 1

\* list_models() raises instead of returning
list_models_raises(d) == IsDir(d) /\ TableRaises(ScanManifests(d))

\* a scan that reports a root that is no directory as one unknown model
MissingRootUnknown == [name \in {"unknown:latest"} |-> ModelRecord(<<>>, NoFile)]

\* lines 16-18: what list_models returns when the root is no directory
MissingRootResult == EmptyMap

\* the mapping list_models() returns
list_models(d) == IF ~IsDir(d) THEN MissingRootResult ELSE ScanManifests(d)

(* ---------------- find_all_references ---------------- *)
\* a setdefault that forgets the names already stored for the key
SetDefaultFresh(blob_refs, bh) == {}

\* blob_refs.setdefault(bh, set())
SetDefault(blob_refs, bh) == IF bh \in DOMAIN blob_refs THEN blob_refs[bh] ELSE {}

\* the inner loop: for bh in info["blob_hashes"]
RECURSIVE AddReferences(_, _, _)
AddReferences(blob_refs, mname, hashes) ==
  IF hashes = {} THEN blob_refs
  ELSE LET bh == CHOOSE h \in hashes : TRUE
       IN AddReferences(Put(blob_refs, bh, SetDefault(blob_refs, bh) \cup {mname}),
                        mname, hashes \ {bh})

\* the outer loop: for mname, info in model_dict.items()
RECURSIVE IndexModels(_, _, _)
IndexModels(model_dict, names, blob_refs) ==
  IF names = {} THEN blob_refs
  ELSE LET mname == CHOOSE m \in names : TRUE
       IN IndexModels(model_dict, names \ {mname},
                      AddReferences(blob_refs, mname, model_dict[mname].blob_hashes))

\* the index of a registry
IndexOf(model_dict) == IndexModels(model_dict, DOMAIN model_dict, EmptyMap)

find_all_references(d) == IndexOf(list_models(d))

(* ---------------- strings ---------------- *)
UpperCase == "ABCDEFGHIJKLMNOPQRSTUVWXYZ"

LowerCase == "abcdefghijklmnopqrstuvwxyz"

CharLower(c) ==
  IF \E i \in 1..Len(UpperCase) : SubSeq(UpperCase, i, i) = c
  THEN LET i == CHOOSE j \in 1..Len(UpperCase) : SubSeq(UpperCase, j, j) = c
       IN SubSeq(LowerCase, i, i)
  ELSE c

\* str.lower()
RECURSIVE StrLower(_)
StrLower(s) ==
  IF Len(s) = 0 THEN ""
  ELSE CharLower(SubSeq(s, 1, 1)) \o StrLower(SubSeq(s, 2, Len(s)))

\* str.endswith(suffix)
EndsWith(s, suffix) ==
  /\ Len(s) >= Len(suffix)
  /\ SubSeq(s, Len(s) - Len(suffix) + 1, Len(s)) = suffix

\* the characters of the universe's names in code point order
CodePoints == "'-./0123456789:ABCDEFGHIJKLMNOPQRSTUVWXYZ_abcdefghijklmnopqrstuvwxyz"

CodePoint(c) == CHOOSE i \in 1..Len(CodePoints) : SubSeq(CodePoints, i, i) = c

\* s < t for Python strings
RECURSIVE StrLess(_, _)
StrLess(s, t) ==
  IF Len(t) = 0 THEN FALSE
  ELSE IF Len(s) = 0 THEN TRUE
  ELSE LET a == CodePoint(SubSeq(s, 1, 1))
           b == CodePoint(SubSeq(t, 1, 1))
       IN IF a # b THEN a < b
          ELSE StrLess(SubSeq(s, 2, Len(s)), SubSeq(t, 2, Len(t)))

\* sorted(names)
RECURSIVE Sorted(_)
Sorted(names) ==
  IF names = {} THEN <<>>
  ELSE LET least == CHOOSE n \in names : \A o \in names \ {n} : StrLess(n, o)
       IN <<least>> \o Sorted(names \ {least})

(* ---------------- delete_model: the reference recount ---------------- *)
\* os.scandir(MANIFESTS_DIR): the entries directly under the root, files and
\* directories
ScanDir(d) ==
  {[name |-> p[1], is_file |-> (Len(p) = 1), path |-> <<p[1]>>] : p \in ExistingFiles(d)}

\* entry.name.lower().endswith(".json"), for the names an entry can have
HasJsonSuffix == [name \in {p[1] : p \in Paths} |-> EndsWith(StrLower(name), ".json")]

\* the entries the recount opens
CountedEntries(d) ==
  {e \in ScanDir(d) : e.is_file /\ HasJsonSuffix[e.name]}

\* the manifests the recount loads: a file that does not load is ignored
CountedFiles(d) == {e.path : e \in {c \in CountedEntries(d) : Loads(d[c.path])}}

Occurrences(list, h) == Cardinality({i \in DOMAIN list : list[i] = h})

RECURSIVE SumOccurrences(_, _, _)
SumOccurrences(d, files, h) ==
  IF files = {} THEN 0
  ELSE LET p == CHOOSE q \in files : TRUE
       IN Occurrences(d[p].blobs, h) + SumOccurrences(d, files \ {p}, h)

\* blob_refs_after: one count per "blobs" entry with a truthy sha256
Recount(d) ==
  LET files == CountedFiles(d)
      seen == UNION {{h \in Range(d[p].blobs) : h # ""} : p \in files}
  IN [fname \in {BlobName(h) : h \in seen} |->
        LET h == CHOOSE g \in seen : BlobName(g) = fname
        IN SumOccurrences(d, files, h)]

\* a lookup that takes a hash without an entry for referenced
GetCountDefaultOne(refs, blob_hash) == IF blob_hash \in DOMAIN refs THEN refs[blob_hash] ELSE 1

\* blob_refs_after.get(blob_hash, 0)
GetCount(refs, blob_hash) == IF blob_hash \in DOMAIN refs THEN refs[blob_hash] ELSE 0

(* ---------------- state ---------------- *)
VARIABLES
  disk,                   \* the files under MANIFESTS_DIR, by relative path
  blobs,                  \* the names of the files in BLOBS_DIR
  models_cache,           \* the global registry, as last returned by list_models
  checked,                \* the treeview rows tagged "checked"
  pc,                     \* "Idle", or the position of the running handler
  todo,                   \* on_delete: the selected items still to iterate
  req,                    \* delete_model's arguments
  manifest_path,          \* delete_model locals
  blob_hashes_to_remove,
  blob_refs_after,
  remaining,              \* the blob hashes the sweep loop has not visited yet
  shown,                  \* the message boxes of the running request or handler
  hist,                   \* the file operations of the running request, in order
  pre,                    \* the store as it was when the running request started
  batch,                  \* the store as it was when the running handler started
  blob_refs               \* what the last call of find_all_references gave

vars ==
  <<disk, blobs, models_cache, checked, pc, todo, req, manifest_path,
    blob_hashes_to_remove, blob_refs_after, remaining, shown, hist, pre, batch, blob_refs>>

AllBlobFiles == {BlobName(h) : h \in Hashes}

\* the blob stores of the initial states: at most one blob file is missing
InitStores == {AllBlobFiles} \cup {AllBlobFiles \ {b} : b \in AllBlobFiles}

NoRequest == [name |-> "", models |-> EmptyMap, suppress |-> FALSE]

NoSnapshot == [disk |-> EmptyMap, blobs |-> {}, cache |-> EmptyMap, checked |-> {}]

\* items: the selected rows the loop iterates; issued: the names passed to
\* delete_model so far; outcomes: how the requests before the running one ended
NoBatch ==
  [disk |-> EmptyMap, blobs |-> {}, cache |-> EmptyMap, selected |-> {}, clean |-> TRUE,
   confirm |-> FALSE, items |-> <<>>, issued |-> <<>>, outcomes |-> <<>>]

NotCalled == [called |-> FALSE, raised |-> FALSE, refs |-> EmptyMap]

Event(ev, arg) == [ev |-> ev, arg |-> arg]

Dialog(kind, title, text) == [kind |-> kind, title |-> title, text |-> text]

\* the phases of one deletion request
RequestTerminal == {"NotFound", "ManifestRemoveFailed", "Completed"}

\* the positions at which a handler returns to the event loop
HandlerEnd == {"NoSelection", "Declined", "Aborted"}

\* the program after its start: line 283 has filled the registry
Init ==
  /\ disk \in [Paths -> InitFiles]
  /\ blobs \in InitStores
  /\ ~list_models_raises(disk)
  /\ models_cache = list_models(disk)
  /\ blob_refs = NotCalled
  /\ checked = {}
  /\ pc = "Idle"
  /\ todo = <<>>
  /\ req = NoRequest
  /\ manifest_path = <<>>
  /\ blob_hashes_to_remove = {}
  /\ blob_refs_after = EmptyMap
  /\ remaining = {}
  /\ shown = <<>>
  /\ hist = <<>>
  /\ pre = NoSnapshot
  /\ batch = NoBatch

LocalsUnchanged == UNCHANGED <<manifest_path, blob_hashes_to_remove, blob_refs_after, remaining>>

\* no step of a handler calls find_all_references
NoIndexCall == UNCHANGED blob_refs

ResetLocals ==
  /\ manifest_path' = <<>>
  /\ blob_hashes_to_remove' = {}
  /\ blob_refs_after' = EmptyMap
  /\ remaining' = {}

(* ---------------- on_check ---------------- *)
on_check(row_id, value) ==
  /\ NoIndexCall
  /\ pc = "Idle"
  /\ row_id \in DOMAIN models_cache
  /\ checked' = IF value = 1 THEN checked \cup {row_id} ELSE checked \ {row_id}
  /\ UNCHANGED <<disk, blobs, models_cache, pc, todo, req, shown, hist, pre, batch>>
  /\ LocalsUnchanged

(* ---------------- on_delete ---------------- *)
\* sorted(...) of every name a registry can hold
SortedNames == Sorted({ModelName(p) : p \in Paths})

IsRow(name) == name \in DOMAIN models_cache

\* model_treeview.get_children(): the rows, inserted in sorted order
TreeviewChildren == SelectSeq(SortedNames, IsRow)

IsChecked(item) == item \in checked

\* the rows of the treeview, in insertion order, that carry the tag
SelectedItems == SelectSeq(TreeviewChildren, IsChecked)

\* an on_delete that does not look at the answer
ProceedsAlways(confirm) == TRUE

\* `if confirm:`
Proceeds(confirm) == confirm

on_delete(confirm) ==
  /\ NoIndexCall
  /\ pc = "Idle"
  /\ IF SelectedItems = <<>>
     THEN /\ shown' = <<Dialog("showwarning", "No Selection", "Please select a model to delete.")>>
          /\ pc' = "NoSelection"
          /\ UNCHANGED <<todo, batch>>
     ELSE /\ shown' = <<Dialog("askyesno", "Confirm Delete", "")>>
          /\ IF Proceeds(confirm)
             THEN /\ pc' = "Confirmed"
                  /\ todo' = SelectedItems
                  /\ batch' = [disk |-> disk, blobs |-> blobs, cache |-> models_cache,
                               selected |-> checked, clean |-> TRUE, confirm |-> confirm,
                               items |-> SelectedItems, issued |-> <<>>, outcomes |-> <<>>]
             ELSE /\ pc' = "Declined"
                  /\ UNCHANGED <<todo, batch>>
  /\ UNCHANGED <<disk, blobs, models_cache, checked, req, hist, pre>>
  /\ LocalsUnchanged

\* a loop that ends with the first request that does not complete
LoopContinuesOnSuccess == {"Confirmed", "Completed"}

\* the positions from which `for item in selected_items` takes its next item:
\* the start of the loop and every return of delete_model
LoopContinues == {"Confirmed"} \cup RequestTerminal

\* one iteration of on_delete's loop: the call of delete_model for the next item
NextItem ==
  /\ NoIndexCall
  /\ pc \in LoopContinues
  /\ todo # <<>>
  /\ LET item == Head(todo)
         ended == IF pc \in RequestTerminal THEN <<pc>> ELSE <<>>
     IN IF item \notin DOMAIN models_cache
        THEN \* the row is gone from the treeview: the handler raises
             /\ pc' = "Aborted"
             /\ UNCHANGED <<todo, req, shown, hist, pre, batch>>
        ELSE /\ pc' = "Requested"
             /\ todo' = Tail(todo)
             /\ req' = [name |-> models_cache[item].prefix \o ":" \o models_cache[item].tag,
                        models |-> models_cache, suppress |-> FALSE]
             /\ shown' = <<>>
             /\ hist' = <<>>
             /\ pre' = [disk |-> disk, blobs |-> blobs, cache |-> models_cache, checked |-> checked]
             /\ batch' = [batch EXCEPT !.issued = Append(@, req'.name),
                                       !.outcomes = @ \o ended]
  /\ ResetLocals
  /\ UNCHANGED <<disk, blobs, models_cache, checked>>

\* the handler returns to the event loop
Return ==
  /\ NoIndexCall
  /\ \/ pc \in HandlerEnd
     \/ pc \in RequestTerminal /\ todo = <<>>
  /\ pc' = "Idle"
  /\ todo' = <<>>
  /\ req' = NoRequest
  /\ shown' = <<>>
  /\ hist' = <<>>
  /\ pre' = NoSnapshot
  /\ batch' = NoBatch
  /\ ResetLocals
  /\ UNCHANGED <<disk, blobs, models_cache, checked>>

(* ---------------- delete_model ---------------- *)
\* the names a caller of delete_model asks for
CallNames == {ModelName(p) : p \in Paths} \cup {"non_existent_model"}

\* a call of delete_model from outside on_delete, with the current registry
Call(model_name, suppress_messagebox) ==
  /\ NoIndexCall
  /\ pc = "Idle"
  /\ pc' = "Requested"
  /\ req' = [name |-> model_name, models |-> models_cache, suppress |-> suppress_messagebox]
  /\ pre' = [disk |-> disk, blobs |-> blobs, cache |-> models_cache, checked |-> checked]
  /\ batch' = [disk |-> disk, blobs |-> blobs, cache |-> models_cache,
               selected |-> {model_name}, clean |-> TRUE, confirm |-> FALSE,
               items |-> <<>>, issued |-> <<model_name>>, outcomes |-> <<>>]
  /\ UNCHANGED <<disk, blobs, models_cache, checked, todo, shown, hist>>
  /\ LocalsUnchanged

NotFoundDialog(model_name) ==
  Dialog("showerror", "Error", "Model '" \o model_name \o "' not found.")

\* the message boxes delete_model shows for a name that is not in `models`
NotFoundReport(model_name, suppress_messagebox) ==
  IF ~suppress_messagebox THEN <<NotFoundDialog(model_name)>> ELSE <<>>

\* a delete_model that sweeps the blobs before it removes the manifest
SuccessorSweepFirst(phase) ==
  CASE phase = "Requested" -> "ReferencesRecomputing"
    [] phase = "ReferencesRecomputing" -> "BlobsSweeping"
    [] phase = "BlobsSweeping" -> "ManifestRemoving"
    [] phase = "ManifestRemoving" -> "Completed"

\* a delete_model that sweeps without recounting
SuccessorNoRecount(phase) ==
  CASE phase = "Requested" -> "ManifestRemoving"
    [] phase = "ManifestRemoving" -> "BlobsSweeping"
    [] phase = "ReferencesRecomputing" -> "BlobsSweeping"
    [] phase = "BlobsSweeping" -> "Completed"

\* delete_model's statement order: the registry lookup, then the manifest
\* removal, the recount, the sweep loop, the success report and refresh
Successor(phase) ==
  CASE phase = "Requested" -> "ManifestRemoving"
    [] phase = "ManifestRemoving" -> "ReferencesRecomputing"
    [] phase = "ReferencesRecomputing" -> "BlobsSweeping"
    [] phase = "BlobsSweeping" -> "Completed"

\* `model_name not in models`
InRegistry(model_name, models) == model_name \in DOMAIN models

\* a not-found branch without its return
AfterNotFoundFallThrough == "ManifestRemoving"

\* where delete_model goes after reporting a name that is not in `models`
AfterNotFound == "NotFound"

\* lines 114-120
CheckRegistry ==
  /\ NoIndexCall
  /\ pc = "Requested"
  /\ IF ~InRegistry(req.name, req.models)
     THEN /\ shown' = shown \o NotFoundReport(req.name, req.suppress)
          /\ pc' = AfterNotFound
          /\ batch' = [batch EXCEPT !.clean = FALSE]
          /\ LocalsUnchanged
     ELSE /\ manifest_path' = req.models[req.name].file_path
          /\ blob_hashes_to_remove' = req.models[req.name].blob_hashes
          /\ pc' = Successor("Requested")
          /\ UNCHANGED <<shown, batch, blob_refs_after, remaining>>
  /\ UNCHANGED <<disk, blobs, models_cache, checked, todo, req, hist, pre>>

\* a failure branch without its return
AfterManifestFailureFallThrough == "ReferencesRecomputing"

\* where delete_model goes when os.remove(manifest_path) raises
AfterManifestFailure == "ManifestRemoveFailed"

\* a removal that succeeds for a path without a file
CanRemoveAnything(d, path) == TRUE

\* os.remove(path) can succeed only for a file that is there
CanRemove(d, path) == path \in ExistingFiles(d)

\* lines 122-128: os.remove(manifest_path) succeeds or raises
RemoveManifest(ok) ==
  /\ NoIndexCall
  /\ pc = "ManifestRemoving"
  /\ ok => CanRemove(disk, manifest_path)
  /\ IF ok
     THEN /\ disk' = [disk EXCEPT ![manifest_path] = NoFile]
          /\ hist' = Append(hist, Event("manifest_removed", JoinSlash(manifest_path)))
          /\ pc' = Successor("ManifestRemoving")
          /\ UNCHANGED <<shown, batch>>
     ELSE /\ shown' = IF ~req.suppress
                      THEN Append(shown, Dialog("showerror", "Error", "Failed to remove manifest"))
                      ELSE shown
          /\ hist' = Append(hist, Event("manifest_failed", JoinSlash(manifest_path)))
          /\ pc' = AfterManifestFailure
          /\ batch' = [batch EXCEPT !.clean = FALSE]
          /\ UNCHANGED disk
  /\ UNCHANGED <<blobs, models_cache, checked, todo, req, pre>>
  /\ LocalsUnchanged

\* lines 134-155
RecomputeReferences ==
  /\ NoIndexCall
  /\ pc = "ReferencesRecomputing"
  /\ blob_refs_after' = Recount(disk)
  /\ remaining' = blob_hashes_to_remove
  /\ hist' = Append(hist, Event("recount", ""))
  /\ pc' = Successor("ReferencesRecomputing")
  /\ UNCHANGED <<disk, blobs, models_cache, checked, todo, req, manifest_path,
                 blob_hashes_to_remove, shown, pre, batch>>

\* a sweep that gives up at the first blob it cannot remove
AfterBlobFailureBreak(unvisited, blob_hash) == {}

\* the blob hashes the loop still visits after os.remove(blob_path) raised
\* for blob_hash: the exception is caught inside the loop body
AfterBlobFailure(unvisited, blob_hash) == unvisited \ {blob_hash}

\* a sweep that takes every candidate for a file of the blob store
IsFileAlways(store, blob_hash) == TRUE

\* os.path.isfile(blob_path)
IsFile(store, blob_hash) == blob_hash \in store

\* lines 158-166: one iteration of the sweep loop
SweepBlob(blob_hash, ok) ==
  /\ NoIndexCall
  /\ pc = "BlobsSweeping"
  /\ blob_hash \in remaining
  /\ IF GetCount(blob_refs_after, blob_hash) = 0
     THEN IF IsFile(blobs, blob_hash)
          THEN IF ok
               THEN /\ blobs' = blobs \ {blob_hash}
                    /\ hist' = Append(hist, Event("blob_removed", blob_hash))
                    /\ remaining' = remaining \ {blob_hash}
                    /\ UNCHANGED batch
               ELSE /\ hist' = Append(hist, Event("blob_failed", blob_hash))
                    /\ remaining' = AfterBlobFailure(remaining, blob_hash)
                    /\ batch' = [batch EXCEPT !.clean = FALSE]
                    /\ UNCHANGED blobs
          ELSE /\ ok
               /\ hist' = Append(hist, Event("blob_missing", blob_hash))
               /\ remaining' = remaining \ {blob_hash}
               /\ UNCHANGED <<blobs, batch>>
     ELSE /\ ok
          /\ hist' = Append(hist, Event("blob_referenced", blob_hash))
          /\ remaining' = remaining \ {blob_hash}
          /\ UNCHANGED <<blobs, batch>>
  /\ UNCHANGED <<disk, models_cache, checked, pc, todo, req, manifest_path,
                 blob_hashes_to_remove, blob_refs_after, shown, pre>>

\* refresh_model_list: the registry is rescanned and the treeview rebuilt
\* (the new rows carry no tag)
\* a refresh that keeps the registry it has
refresh_without_scan ==
  /\ models_cache' = models_cache
  /\ checked' = {}

refresh_model_list ==
  IF list_models_raises(disk)
  THEN UNCHANGED <<models_cache, checked>>
  ELSE /\ models_cache' = list_models(disk)
       /\ checked' = {}

\* lines 168-172: the loop is over
Finish ==
  /\ NoIndexCall
  /\ pc = "BlobsSweeping"
  /\ remaining = {}
  /\ shown' = IF ~req.suppress
              THEN Append(shown, Dialog("showinfo", "Success", "Model '" \o req.name \o "' removed."))
              ELSE shown
  /\ refresh_model_list
  /\ pc' = IF list_models_raises(disk) THEN "Aborted" ELSE Successor("BlobsSweeping")
  /\ UNCHANGED <<disk, blobs, todo, req, hist, pre, batch>>
  /\ LocalsUnchanged

DeleteModelStep ==
  \/ CheckRegistry
  \/ \E ok \in BOOLEAN : RemoveManifest(ok)
  \/ RecomputeReferences
  \/ \E b \in AllBlobFiles, ok \in BOOLEAN : SweepBlob(b, ok)
  \/ Finish

Next ==
  \/ \E row \in CallNames, v \in {0, 1} : on_check(row, v)
  \/ \E confirm \in BOOLEAN : on_delete(confirm)
  \/ NextItem
  \/ Return
  \/ \E n \in CallNames, s \in BOOLEAN : Call(n, s)
  \/ DeleteModelStep

Spec == Init /\ [][Next]_vars

\* delete_model and on_delete are synchronous: a running handler keeps running
FairSpec == Spec /\ WF_vars(DeleteModelStep) /\ WF_vars(NextItem)

(* ---------------- another process writes manifests ---------------- *)
\* the positions of the program between a scan of the registry and the recount
\* of a request
BeforeRecount == {"Idle", "Requested", "ManifestRemoving", "ReferencesRecomputing"}

\* another process (ollama pull) writes a manifest that references one blob,
\* at a path that holds no file, after the registry was scanned and before
\* the recount of lines 140-155 reads the tree
ExternalAdd(p, h) ==
  /\ pc \in BeforeRecount
  /\ disk[p].kind = "none"
  /\ disk' = [disk EXCEPT ![p] = JsonFile(<<h>>)]
  /\ UNCHANGED <<blobs, models_cache, checked, pc, todo, req, shown, hist, pre, batch, blob_refs>>
  /\ LocalsUnchanged

ExternalNext ==
  \/ Next
  \/ \E p \in Paths, h \in Hashes : ExternalAdd(p, h)

ExternalSpec == Init /\ [][ExternalNext]_vars

(* ---------------- a caller repeats its call ---------------- *)
\* after a delete_model that completed, the caller calls it again for the same
\* name: with the registry it passed before, or with the refreshed one
CallAgain(stale) ==
  /\ NoIndexCall
  /\ pc = "Completed"
  /\ todo = <<>>
  /\ batch.items = <<>>
  /\ Len(batch.issued) = 1
  /\ pc' = "Requested"
  /\ req' = [req EXCEPT !.models = IF stale THEN req.models ELSE models_cache]
  /\ pre' = [disk |-> disk, blobs |-> blobs, cache |-> models_cache, checked |-> checked]
  /\ batch' = [batch EXCEPT !.issued = Append(@, req.name)]
  /\ shown' = <<>>
  /\ hist' = <<>>
  /\ ResetLocals
  /\ UNCHANGED <<disk, blobs, models_cache, checked, todo>>

RepeatNext ==
  \/ Next
  \/ \E stale \in BOOLEAN : CallAgain(stale)

RepeatSpec == Init /\ [][RepeatNext]_vars

(* ---------------- the scanner alone ---------------- *)
\* the files of the scanned trees: none, one that does not load, and
\* manifests as in the test fixture
ScanFileKinds ==
  {NoFile, BadFile, JsonFile(<<>>), JsonFile(<<"aaaa", "bbbb">>), JsonFile(<<"bbbb", "cccc">>)}

IsProperPrefix(p, q) == Len(p) < Len(q) /\ SubSeq(q, 1, Len(p)) = p

\* no name is a file and a directory at once
Consistent(d) ==
  \A p, q \in ExistingFiles(d) : ~IsProperPrefix(p, q)

ScanTrees == {d \in [ScanPaths -> ScanFileKinds] : Consistent(d)} \cup {NoDir}

\* the program before line 283, over any tree
ScanInit ==
  /\ disk \in ScanTrees
  /\ blobs = AllBlobFiles
  /\ models_cache = EmptyMap
  /\ checked = {}
  /\ pc = "Starting"
  /\ todo = <<>>
  /\ req = NoRequest
  /\ manifest_path = <<>>
  /\ blob_hashes_to_remove = {}
  /\ blob_refs_after = EmptyMap
  /\ remaining = {}
  /\ shown = <<>>
  /\ hist = <<>>
  /\ pre = NoSnapshot
  /\ batch = NoBatch
  /\ blob_refs = NotCalled

\* line 283: models_cache = list_models(); an exception ends the program
Startup ==
  /\ pc = "Starting"
  /\ IF list_models_raises(disk)
     THEN /\ pc' = "Crashed"
          /\ UNCHANGED models_cache
     ELSE /\ pc' = "Idle"
          /\ models_cache' = list_models(disk)
  /\ UNCHANGED <<disk, blobs, checked, todo, req, shown, hist, pre, batch, blob_refs>>
  /\ LocalsUnchanged

\* a call of find_all_references(): the exception of list_models propagates
FindAllReferences ==
  /\ pc \in {"Starting", "Idle"}
  /\ ~blob_refs.called
  /\ blob_refs' = IF list_models_raises(disk)
                  THEN [called |-> TRUE, raised |-> TRUE, refs |-> EmptyMap]
                  ELSE [called |-> TRUE, raised |-> FALSE, refs |-> find_all_references(disk)]
  /\ UNCHANGED <<disk, blobs, models_cache, checked, pc, todo, req, shown, hist, pre, batch>>
  /\ LocalsUnchanged

ScanNext == Startup \/ FindAllReferences

ScanSpec == ScanInit /\ [][ScanNext]_vars

(* ---------------- properties ---------------- *)
\* the blob files that the manifests of a tree that load as JSON reference
ReferencedOnDisk(d) == UNION {BlobHashes(d[p]) : p \in {q \in Paths : Loads(d[q])}}

\* the blob files the entries of a registry reference
ReferencedBy(models, names) == UNION {models[m].blob_hashes : m \in names \cap DOMAIN models}

EventsOf(ev) == {hist[i].arg : i \in {j \in DOMAIN hist : hist[j].ev = ev}}

ErrorsShown == {i \in DOMAIN shown : shown[i].kind = "showerror"}

\* C1: when delete_model of a listed model has completed, its manifest is gone
\* and every blob file that a manifest still on disk references is still in the
\* blob store.
C1_SharedBlobsKept ==
  pc = "Completed" =>
    /\ manifest_path \notin ExistingFiles(disk)
    /\ \A b \in pre.blobs : b \in ReferencedOnDisk(disk) => b \in blobs

\* the tree without the manifests of the registry entries `names`
WithoutManifests(d, models, names) ==
  [p \in Paths |-> IF \E m \in names \cap DOMAIN models : models[m].file_path = p
                   THEN NoFile ELSE d[p]]

\* C2: when a batch in which nothing failed is over, the blob files removed are
\* exactly those referenced by a deleted model and by no manifest outside the
\* batch.
C2_BatchRemovesExactlyOrphans ==
  (pc \in RequestTerminal /\ todo = <<>> /\ batch.clean) =>
    LET S == batch.selected
        survivors == WithoutManifests(batch.disk, batch.cache, S)
    IN batch.blobs \ blobs =
         {b \in batch.blobs : /\ b \in ReferencedBy(batch.cache, S)
                              /\ b \notin ReferencedOnDisk(survivors)}

ScenarioAB(A, B) ==
  /\ DOMAIN req.models = {A, B}
  /\ A # B
  /\ req.name = A
  /\ Cardinality(req.models[A].blob_hashes) = 2
  /\ Cardinality(req.models[B].blob_hashes) = 2
  /\ Cardinality(req.models[A].blob_hashes \cap req.models[B].blob_hashes) = 1

\* C4: a running delete_model changes no manifest but the one of the name and
\* removes no blob file outside the name's blob_hashes; in the scenario
\* A: [x, y], B: [y, z], once deleting A has completed with no failed removal,
\* manifest B and blob z are as before, y is kept and x is removed.
C4_FrameAndScenario ==
  (pc \in {"ManifestRemoving", "ReferencesRecomputing", "BlobsSweeping", "Completed"}) =>
    /\ \A p \in Paths : p # req.models[req.name].file_path => disk[p] = pre.disk[p]
    /\ pre.blobs \ blobs \subseteq req.models[req.name].blob_hashes
    /\ \A A, B \in DOMAIN req.models :
         (pc = "Completed" /\ ScenarioAB(A, B) /\ EventsOf("blob_failed") = {}) =>
           LET xs == req.models[A].blob_hashes \ req.models[B].blob_hashes
               ys == req.models[A].blob_hashes \cap req.models[B].blob_hashes
               zs == req.models[B].blob_hashes \ req.models[A].blob_hashes
           IN /\ disk[req.models[B].file_path] = pre.disk[req.models[B].file_path]
              /\ zs \cap blobs = zs \cap pre.blobs
              /\ ys \cap blobs = ys \cap pre.blobs
              /\ xs \cap blobs = {}

\* C5: a request for a name that is not in the registry it was given ends as
\* not found in one step that removes no manifest and no blob, and nothing is
\* removed afterwards until the handler returns or the next request starts.
C5_NotFoundTouchesNothing ==
  [][ /\ (pc = "Requested" /\ ~InRegistry(req.name, req.models))
         => (pc' = "NotFound" /\ disk' = disk /\ blobs' = blobs /\ hist' = hist)
      /\ pc = "NotFound"
         => (pc' \in {"Idle", "Requested"} /\ disk' = disk /\ blobs' = blobs) ]_vars

\* a not-found request over a store that has a manifest and a blob to lose
C5_Witness ==
  /\ pc = "NotFound"
  /\ ExistingFiles(disk) # {}
  /\ blobs # {}
  /\ disk = pre.disk
  /\ blobs = pre.blobs

\* C6: a request that ended as not found has shown the error
\* "Model '<name>' not found." exactly once, whatever suppress_messagebox is.
C6_NotFoundReportedOnce ==
  pc = "NotFound" =>
    Cardinality({i \in DOMAIN shown : shown[i] = NotFoundDialog(req.name)}) = 1

\* C7: once the removal of the manifest has failed, the request is in
\* ManifestRemoveFailed with nothing else done: the tree, the blob store,
\* models_cache and the treeview's tags are as when the request started (no
\* refresh) and no recount was made.
C7_ManifestFailureStops ==
  (hist # <<>> /\ hist[1].ev = "manifest_failed") =>
    /\ pc = "ManifestRemoveFailed"
    /\ Len(hist) = 1
    /\ disk = pre.disk
    /\ blobs = pre.blobs
    /\ models_cache = pre.cache
    /\ checked = pre.checked
    /\ blob_refs_after = EmptyMap

\* the removal failed for a model whose blob files are in the store and are
\* referenced by nothing else
C7_Witness ==
  /\ pc = "ManifestRemoveFailed"
  /\ blob_hashes_to_remove # {}
  /\ blob_hashes_to_remove \subseteq blobs
  /\ blob_hashes_to_remove \cap ReferencedOnDisk([disk EXCEPT ![manifest_path] = NoFile]) = {}

\* C8: in the operations of one request the manifest removal comes before the
\* recount and the recount before every attempt to remove a blob file; the
\* recount reads the tree without the manifest, and the blob store is as at the
\* start until the sweep.
C8_RemovalThenRecountThenSweep ==
  /\ \A i \in DOMAIN hist :
       /\ hist[i].ev = "recount" =>
            \E k \in 1..(i - 1) : hist[k].ev = "manifest_removed"
       /\ hist[i].ev \in {"blob_removed", "blob_failed"} =>
            \E j \in 1..(i - 1) : hist[j].ev = "recount"
  /\ (\E i \in DOMAIN hist : hist[i].ev = "recount") =>
       /\ manifest_path \notin ExistingFiles(disk)
       /\ blob_refs_after = Recount(disk)
  /\ (pre # NoSnapshot /\ blobs # pre.blobs) => pc \in {"BlobsSweeping", "Completed"}

\* a request that removed its manifest, recounted and then removed a blob file
C8_Witness ==
  /\ Len(hist) >= 3
  /\ hist[1].ev = "manifest_removed"
  /\ hist[2].ev = "recount"
  /\ hist[3].ev = "blob_removed"
  /\ blobs # pre.blobs

RequestPhases ==
  {"Requested", "ManifestRemoving", "ManifestRemoveFailed", "ReferencesRecomputing",
   "BlobsSweeping", "Completed"}

AllowedTransitions ==
  { <<"Requested", "ManifestRemoving">>,
    <<"ManifestRemoving", "ManifestRemoveFailed">>,
    <<"ManifestRemoving", "ReferencesRecomputing">>,
    <<"ReferencesRecomputing", "BlobsSweeping">>,
    <<"BlobsSweeping", "BlobsSweeping">>,
    <<"BlobsSweeping", "Completed">> }

\* the step belongs to the running request: the handler does not return and
\* on_delete does not start the next request
SameRequest == pc' # "Idle" /\ todo' = todo

\* C9: a request for a name in the registry moves only along Requested ->
\* ManifestRemoving -> ManifestRemoveFailed or Requested -> ManifestRemoving ->
\* ReferencesRecomputing -> BlobsSweeping -> Completed, takes no step from
\* ManifestRemoveFailed or Completed, and reaches one of the two.
C9_RequestStateMachine ==
  /\ [][ (pc \in RequestPhases /\ InRegistry(req.name, req.models) /\ SameRequest)
         => <<pc, pc'>> \in AllowedTransitions ]_vars
  /\ (pc = "Requested" /\ InRegistry(req.name, req.models))
       ~> (pc \in {"ManifestRemoveFailed", "Completed"})

\* the second request of a batch has completed after sweeping a blob
C9_Witness ==
  /\ pc = "Completed"
  /\ Cardinality(batch.selected) = 2
  /\ todo = <<>>
  /\ EventsOf("blob_removed") # {}

\* C10: a blob file that could not be removed does not end the sweep: while
\* the loop runs every candidate is either visited or still to be visited, and
\* at Completed every candidate with a zero count that was in the store has
\* been attempted and is gone unless its own removal failed.
C10_SweepIsBestEffort ==
  /\ pc = "BlobsSweeping" =>
       \A b \in blob_hashes_to_remove :
         \/ b \in remaining
         \/ \E i \in DOMAIN hist : hist[i].arg = b /\ hist[i].ev # "manifest_removed"
  /\ EventsOf("blob_failed") # {} => pc \in {"BlobsSweeping", "Completed"}
  /\ pc = "Completed" =>
       \A b \in blob_hashes_to_remove :
         (GetCount(blob_refs_after, b) = 0 /\ b \in pre.blobs) =>
           /\ b \in EventsOf("blob_removed") \cup EventsOf("blob_failed")
           /\ b \notin EventsOf("blob_failed") => b \notin blobs

\* a completed request in which one removal failed and a later one succeeded
C10_Witness ==
  /\ pc = "Completed"
  /\ \E i, j \in DOMAIN hist :
       i < j /\ hist[i].ev = "blob_failed" /\ hist[j].ev = "blob_removed"

\* C11: a candidate of the sweep whose file is not in the blob store is passed
\* over: no removal is attempted for it, no error is shown, the candidates after
\* it are still visited and the request completes; a model without blob
\* references is deleted by the manifest removal and the recount alone.
C11_MissingBlobIsSatisfied ==
  /\ \A i \in DOMAIN hist :
       hist[i].ev = "blob_missing" =>
         /\ hist[i].arg \notin pre.blobs
         /\ hist[i].arg \notin EventsOf("blob_removed") \cup EventsOf("blob_failed")
         /\ ErrorsShown = {}
         /\ pc \in {"BlobsSweeping", "Completed"}
  /\ \A b \in EventsOf("blob_removed") \cup EventsOf("blob_failed") : b \in pre.blobs
  /\ pc = "Completed" =>
       /\ \A b \in blob_hashes_to_remove : \E i \in DOMAIN hist : hist[i].arg = b
       /\ blob_hashes_to_remove = {} =>
            /\ Len(hist) = 2
            /\ hist[1].ev = "manifest_removed"
            /\ hist[2].ev = "recount"
            /\ blobs = pre.blobs
            /\ ErrorsShown = {}

\* a completed request that passed over a missing blob file and then removed
\* another one
C11_Witness ==
  /\ pc = "Completed"
  /\ \E i, j \in DOMAIN hist :
       i < j /\ hist[i].ev = "blob_missing" /\ hist[j].ev = "blob_removed"

\* the running handler is on_delete after a confirmation
InBatch == batch.items # <<>>

\* a step that starts a request of on_delete's loop
StartsRequest == pc # "Idle" /\ pc' = "Requested"

\* C12: a confirmed on_delete passes the selected models to delete_model one
\* after the other, in order; a request starts only at the start of the loop or
\* when the request before it has ended (as not found, with a failed manifest
\* removal, or completed); and whatever the earlier requests ended as, the
\* handler gets to the end of the last selected model's request.
C12_BatchIsSequentialAndIndependent ==
  /\ [](InBatch =>
          /\ batch.issued \o todo = batch.items
          /\ \A i \in DOMAIN batch.outcomes : batch.outcomes[i] \in RequestTerminal
          /\ pc \in RequestPhases \cup {"NotFound"} => Len(batch.outcomes) = Len(batch.issued) - 1)
  /\ [][StartsRequest => pc \in {"Confirmed"} \cup RequestTerminal]_vars
  /\ (pc = "Confirmed")
       ~> (pc \in RequestTerminal /\ todo = <<>> /\ batch.issued = batch.items)

\* the first of two selected models could not be removed and the second was
\* deleted
C12_Witness ==
  /\ pc = "Completed"
  /\ todo = <<>>
  /\ Len(batch.items) = 2
  /\ batch.issued = batch.items
  /\ batch.outcomes = <<"ManifestRemoveFailed">>

NoSelectionWarning == Dialog("showwarning", "No Selection", "Please select a model to delete.")

\* C13: on_delete with nothing selected shows the "No Selection" warning and
\* calls nothing; after a declined confirmation delete_model is never called
\* and the tree and the blob store are as before; requests are made by
\* on_delete only after a positive answer over a non-empty selection, each with
\* the current models_cache, and at the end of the handler every selected model
\* has been passed to delete_model exactly once.
C13_DeleteOnlyAfterConfirmation ==
  /\ [](/\ pc = "NoSelection" =>
             (shown = <<NoSelectionWarning>> /\ SelectedItems = <<>> /\ req = NoRequest /\ hist = <<>>)
        /\ pc = "Declined" =>
             (SelectedItems # <<>> /\ req = NoRequest /\ hist = <<>> /\ batch = NoBatch)
        /\ InBatch =>
             /\ batch.confirm
             /\ Range(batch.items) = batch.selected
             /\ Len(batch.items) = Cardinality(batch.selected)
             /\ (pc \in RequestTerminal /\ todo = <<>>) => batch.issued = batch.items)
  /\ [][ /\ pc' \in {"NoSelection", "Declined"} => (pc = "Idle" /\ disk' = disk /\ blobs' = blobs)
         /\ pc \in {"NoSelection", "Declined"} => (pc' = "Idle" /\ disk' = disk /\ blobs' = blobs)
         /\ pc' = "Confirmed" => (pc = "Idle" /\ SelectedItems # <<>> /\ batch'.confirm)
         /\ StartsRequest =>
              /\ batch.confirm
              /\ req'.models = models_cache
              /\ req'.name = Head(todo)
              /\ req'.name \notin Range(batch.issued) ]_vars

\* the confirmation over two selected models was declined, with manifests and
\* blob files in place
C13_Witness ==
  /\ pc = "Declined"
  /\ Len(SelectedItems) = 2
  /\ blobs = AllBlobFiles
  /\ \A m \in DOMAIN models_cache : models_cache[m].blob_hashes # {}

\* C14: the index find_all_references returns has a blob file name as a key
\* exactly if a record of the registry lists it, and the value of a key is
\* exactly the set of the names of the records that list it.
C14_IndexIsInverse ==
  (blob_refs.called /\ ~blob_refs.raised) =>
    LET model_dict == list_models(disk)
    IN /\ \A bh \in AllBlobFiles :
            bh \in DOMAIN blob_refs.refs
              <=> \E m \in DOMAIN model_dict : bh \in model_dict[m].blob_hashes
       /\ DOMAIN blob_refs.refs \subseteq AllBlobFiles
       /\ \A bh \in DOMAIN blob_refs.refs :
            blob_refs.refs[bh] = {m \in DOMAIN model_dict : bh \in model_dict[m].blob_hashes}

\* the index of three records: two share one blob and have one of their own
\* each, the third lists none
C14_Witness ==
  /\ blob_refs.called
  /\ Cardinality(DOMAIN list_models(disk)) = 3
  /\ \E m \in DOMAIN list_models(disk) : list_models(disk)[m].blob_hashes = {}
  /\ Cardinality(DOMAIN blob_refs.refs) = 3
  /\ \E bh \in DOMAIN blob_refs.refs : Cardinality(blob_refs.refs[bh]) = 2

\* every file of the tree is a well-formed manifest
WellFormedTree(d) == IsDir(d) /\ \A p \in ExistingFiles(d) : d[p].kind = "json"

\* the manifest of a name that the walk comes to last
LastScanned(d, name) ==
  LET w == Walk(d)
      at == {i \in DOMAIN w : ModelName(w[i]) = name}
  IN w[CHOOSE i \in at : \A j \in at : j <= i]

\* C15: over a tree of well-formed manifests, whatever their paths and names,
\* list_models returns, its keys are the distinct derived names, and the record
\* of a name is that of the manifest of the name scanned last.
C15_OneRecordPerName ==
  (pc # "Starting" /\ WellFormedTree(disk)) =>
    /\ pc = "Idle"
    /\ DOMAIN models_cache = {ModelName(p) : p \in ExistingFiles(disk)}
    /\ \A name \in DOMAIN models_cache :
         models_cache[name] =
           ModelRecord(LastScanned(disk, name), disk[LastScanned(disk, name)])

WellFormedFiles(d) == {p \in ExistingFiles(d) : d[p].kind = "json"}

\* C16: over any mix of files that do not load and well-formed manifests,
\* list_models returns, with a record for every well-formed manifest and none
\* for a file that does not load.
C16_UnloadableFilesAreSkipped ==
  (pc # "Starting" /\ IsDir(disk)) =>
    /\ pc = "Idle"
    /\ DOMAIN models_cache = {ModelName(p) : p \in WellFormedFiles(disk)}
    /\ \A name \in DOMAIN models_cache : models_cache[name].file_path \in WellFormedFiles(disk)

\* C17: when the manifests root does not exist, or holds no file, the scan at
\* the start returns (nothing is raised) and what it returns is the empty
\* mapping.
C17_NoRootOrEmptyRootGivesNoModels ==
  (~IsDir(disk) \/ ExistingFiles(disk) = {}) =>
    /\ ~list_models_raises(disk)
    /\ list_models(disk) = EmptyMap
    /\ pc # "Starting" => (pc = "Idle" /\ models_cache = EmptyMap)

\* the program has started over a root that does not exist
C17_Witness ==
  /\ pc = "Idle"
  /\ ~IsDir(disk)
  /\ models_cache = EmptyMap

\* len(find_all_references()[bh]), 0 for a blob without a key
IndexSize(d, bh) ==
  LET refs == find_all_references(d)
  IN IF bh \in DOMAIN refs THEN Cardinality(refs[bh]) ELSE 0

\* C18: the count that delete_model has for a blob after its recount is the
\* number of the models that find_all_references gives for the blob over the
\* tree as it is after the manifest removal.
C18_RecountEqualsIndex ==
  (pc = "BlobsSweeping") =>
    \A bh \in AllBlobFiles : GetCount(blob_refs_after, bh) = IndexSize(disk, bh)

\* the well-formed manifests on disk that the registry of the running request
\* does not know
UnknownManifests ==
  {p \in WellFormedFiles(disk) : \A m \in DOMAIN req.models : req.models[m].file_path # p}

\* C19: when a request has completed, a blob of the deleted model that a
\* manifest written behind the registry's back references is still in the
\* store; and if no removal failed, the blob files removed are those of the
\* target entry that the tree on disk gives a zero count, whatever the other
\* entries of the registry are.
C19_SweepFollowsDisk ==
  (pc = "Completed") =>
    /\ \A p \in UnknownManifests :
         \A b \in BlobHashes(disk[p]) \cap blob_hashes_to_remove :
           b \in pre.blobs => b \in blobs
    /\ EventsOf("blob_failed") = {} =>
         pre.blobs \ blobs =
           {b \in req.models[req.name].blob_hashes \cap pre.blobs :
              GetCount(Recount(disk), b) = 0}

\* the positions at which delete_model is running
InProgress == {"Requested", "ManifestRemoving", "ReferencesRecomputing", "BlobsSweeping"}

\* C20: with no other process writing the tree, models_cache is what a scan of
\* the disk gives whenever no delete_model is running; when a request has
\* completed the registry is the fresh scan and the deleted name is not in
\* it, also before the next iteration of on_delete's loop.
C20_RegistryMatchesDisk ==
  /\ pc \notin InProgress => models_cache = list_models(disk)
  /\ pc = "Completed" =>
       /\ req.name \notin DOMAIN models_cache
       /\ req.name \in DOMAIN pre.cache
       /\ DOMAIN models_cache = DOMAIN pre.cache \ {req.name}

\* the first model of a batch of two has been deleted and the second, still
\* in the refreshed registry, is to come
C20_Witness ==
  /\ pc = "Completed"
  /\ todo # <<>>
  /\ Head(todo) \in DOMAIN models_cache
  /\ models_cache # pre.cache
  /\ models_cache = list_models(disk)

\* the running request repeats a call that completed
IsRepeat == batch.items = <<>> /\ Len(batch.issued) = 2

\* C21: a delete_model repeated after it completed changes nothing: with the
\* registry of the first call it gets to the manifest removal, which fails, and
\* goes no further; with the refreshed registry it ends as not found; the tree
\* and the blob store stay as the first call left them.
C21_RepeatIsHarmless ==
  (IsRepeat /\ pc # "Idle") =>
    /\ disk = pre.disk
    /\ blobs = pre.blobs
    /\ \A i \in DOMAIN hist : hist[i].ev = "manifest_failed"
    /\ req.name \notin DOMAIN pre.cache
    /\ IF InRegistry(req.name, req.models)
       THEN pc \in {"Requested", "ManifestRemoving", "ManifestRemoveFailed"}
       ELSE pc \in {"Requested", "NotFound"}

\* the repeated call with the stale registry has failed at the manifest
\* removal, for a model whose blob files were left in the store by the first
\* call (another manifest references them)
C21_Witness ==
  /\ IsRepeat
  /\ pc = "ManifestRemoveFailed"
  /\ blob_hashes_to_remove # {}
  /\ blob_hashes_to_remove \subseteq blobs
  /\ ExistingFiles(disk) # {}

====
